---- MODULE Spec2Model ----
(***************************************************************************)
(* State-machine model of the modmail relay (src/src/main.js): the event   *)
(* handlers registered on the gateway and the inbox-server commands, with  *)
(* the collaborators they call (the serial task queue, the thread          *)
(* registry, the blocklist) modelled from their documented contracts.      *)
(* Every await of a handler is a point where other handlers may run.       *)
(***************************************************************************)
EXTENDS Integers, Sequences, FiniteSets, TLC

(* ------------------------------ bounds --------------------------------- *)
\* Direct messages delivered by the gateway.
MaxDM == 2
\* close commands issued by staff.
MaxClose == 2
\* messageUpdate events delivered by the gateway.
MaxEdit == 1
\* Messages posted on the inbox server.
MaxStaffMsg == 1
\* reply / anonreply commands issued by staff.
MaxReply == 1
\* messageDelete events delivered by the gateway.
MaxDelete == 1
\* Messages mentioning the bot, or other messages outside the DMs.
MaxMention == 1
\* Gateway events and commands delivered in one run, of all kinds.
MaxEvents == 3

(* ----------------------------- domains --------------------------------- *)
\* Human users who can write to the bot.
Humans == {"u1", "u2"}
\* Bot accounts (msg.author.bot is true for them).
Bots == {"bot"}
Authors == Humans \cup Bots
\* msg.type: 0 is a default message, 6 a pin notification.
MsgTypes == {0, 6}
\* "No thread" (a null lookup result).
NoThread == 0
\* Members of the inbox server: a moderator, the bot and a member who is not staff.
Staff == {"mod"}
InboxAuthors == Staff \cup Bots \cup {"u1"}
\* Message texts are sequences of characters.
Null == <<"null">>
\* '*Unavailable due to bot restart*'
RestartPlaceholder ==
  <<"*", "U", "n", "a", "v", "a", "i", "l", "a", "b", "l", "e", " ", "d", "u", "e",
    " ", "t", "o", " ", "b", "o", "t", " ", "r", "e", "s", "t", "a", "r", "t", "*">>
\* oldMessage.content and msg.content of the edit events delivered.
OldContents == {Null, <<" ", "a">>}
NewContents == {<<"a">>, RestartPlaceholder}
\* The texts staff post in a channel: chatter and a command.
StaffContents == {<<"h", " ">>, <<"!", "r">>}
\* config.prefix and config.snippetPrefix
Prefix == <<"!">>
SnippetPrefix == <<"!", "!">>
\* The configurations the bot can be started with.
DefaultConfig == [alwaysReply |-> FALSE, alwaysReplyAnon |-> "unset"]
Configs ==
  {DefaultConfig,
   [alwaysReply |-> TRUE, alwaysReplyAnon |-> "unset"],
   [alwaysReply |-> TRUE, alwaysReplyAnon |-> "true"]}

VARIABLES
  dms,            \* the DM events delivered so far, in gateway arrival order
  queue,          \* messageQueue: tasks waiting (ids of DM events)
  cur,            \* messageQueue: the task being run, 0 when IDLE
  threads,        \* the threads table, thread id = index
  channelsMade,   \* channels ever created on the inbox server
  messages,       \* the ChatMessage table, in insertion order
  blocked,        \* the blocklist
  closePend,      \* close commands dispatched, handler not yet run: thread -> count
  closeIssued,    \* close commands issued so far
  closeCalls,     \* thread.close() calls made so far (the clock of closed_at)
  logExports,     \* per thread: log exports triggered
  channelRemovals,\* per thread: removals of its channel
  config,         \* the loaded configuration (alwaysReply, alwaysReplyAnon)
  edits,          \* the messageUpdate events delivered so far
  staffMsgs,      \* the inbox-server messageCreate events delivered so far
  replies,        \* the reply / anonreply commands issued so far
  deletes,        \* the messageDelete events delivered so far
  crashed,        \* the handlers whose invocation raised an error
  mentions,       \* the main-server messageCreate events delivered so far
  alerts          \* the alerts posted in the log channel (ids of mentions)

\* The private-message handlers and the queue they feed.
dmVars == <<dms, queue, cur>>
\* The persistent store and the inbox server's channels.
storeVars == <<threads, channelsMade, messages, blocked, logExports, channelRemovals>>
\* The close commands in flight.
closeVars == <<closePend, closeIssued, closeCalls>>

\* The handlers of the other gateway events and commands.
handlerVars == <<edits, staffMsgs, replies, deletes, crashed>>

\* The mention handler and the log channel.
mentionVars == <<mentions, alerts>>

vars == <<dms, queue, cur, threads, channelsMade, messages, blocked,
          closePend, closeIssued, closeCalls, logExports, channelRemovals,
          config, edits, staffMsgs, replies, deletes, crashed, mentions, alerts>>

(* ----------------------------- helpers --------------------------------- *)
ThreadIds == 1..Len(threads)

\* Events and commands delivered so far.
Delivered ==
  Len(dms) + closeIssued + Len(edits) + Len(staffMsgs) + Len(replies) + Len(deletes)
    + Len(mentions)

\* utils.isStaff(msg.member)
IsStaff(a) == a \in Staff \cup Bots

\* String.prototype.startsWith
StartsWith(s, p) == Len(s) >= Len(p) /\ SubSeq(s, 1, Len(p)) = p

IsSpace(ch) == ch = " "

RECURSIVE TrimStart(_)
TrimStart(s) ==
  IF s # <<>> /\ IsSpace(Head(s)) THEN TrimStart(Tail(s)) ELSE s

RECURSIVE TrimEnd(_)
TrimEnd(s) ==
  IF s # <<>> /\ IsSpace(s[Len(s)]) THEN TrimEnd(SubSeq(s, 1, Len(s) - 1)) ELSE s

\* String.prototype.trim
Trim(s) == TrimEnd(TrimStart(s))

IsBot(u) == u \in Bots

\* blocked.isBlocked(userId)
IsBlocked(u) == u \in blocked

OpenThreadsOfUser(u) ==
  {t \in ThreadIds : threads[t].user_id = u /\ threads[t].status = "OPEN"}

ThreadsOfUser(u) == {t \in ThreadIds : threads[t].user_id = u}

\* FindOpenThreadByUserId without the filter on the status.
FindAnyThreadByUserId(u) ==
  IF ThreadsOfUser(u) = {} THEN NoThread
  ELSE CHOOSE t \in ThreadsOfUser(u) : \A x \in ThreadsOfUser(u) : t <= x

\* threads.findOpenThreadByUserId(userId): the OPEN thread of the user, or null
FindOpenThreadByUserId(u) ==
  IF OpenThreadsOfUser(u) = {} THEN NoThread
  ELSE CHOOSE t \in OpenThreadsOfUser(u) : \A s \in OpenThreadsOfUser(u) : t <= s

OpenThreadsOfChannel(c) ==
  {t \in ThreadIds : threads[t].channel_id = c /\ threads[t].status = "OPEN"}

\* threads.findOpenThreadByChannelId(channelId)
FindOpenThreadByChannelId(c) ==
  IF OpenThreadsOfChannel(c) = {} THEN NoThread
  ELSE CHOOSE t \in OpenThreadsOfChannel(c) : \A s \in OpenThreadsOfChannel(c) : t <= s

(* ------------------------- serial task queue --------------------------- *)
\* IDLE / PROCESSING
QueueIdle == cur = 0

\* QueueAdd starting every task at once, also while another one runs.
QueueAddEager(m) ==
  /\ cur' = m
  /\ queue' = queue
  /\ dms' = [dms EXCEPT ![m].pc = "find"]

\* messageQueue.add(task): append; when IDLE, start the task at once.
QueueAdd(m) ==
  IF QueueIdle
    THEN /\ cur' = m
         /\ queue' = queue
         /\ dms' = [dms EXCEPT ![m].pc = "find"]
    ELSE /\ cur' = cur
         /\ queue' = Append(queue, m)
         /\ dms' = [dms EXCEPT ![m].pc = "queued"]

\* QueueSettle moving on only after a task that succeeded.
QueueSettleStuck(m, final, t) ==
  IF queue # <<>> /\ final = "done"
    THEN /\ cur' = Head(queue)
         /\ queue' = Tail(queue)
         /\ dms' = [dms EXCEPT ![m].pc = final, ![m].thread = t,
                               ![Head(queue)].pc = "find"]
    ELSE /\ cur' = IF final = "done" THEN 0 ELSE cur
         /\ queue' = queue
         /\ dms' = [dms EXCEPT ![m].pc = final, ![m].thread = t]

\* QueueSettle going back to IDLE without starting the task that waits.
QueueSettleNoNext(m, final, t) ==
  /\ cur' = 0
  /\ queue' = queue
  /\ dms' = [dms EXCEPT ![m].pc = final, ![m].thread = t]

\* Task m has settled with pc `final` (and resolved thread t): on completion
\* the queue runs the next task if there is one, else goes back to IDLE.
QueueSettle(m, final, t) ==
  IF queue # <<>>
    THEN /\ cur' = Head(queue)
         /\ queue' = Tail(queue)
         /\ dms' = [dms EXCEPT ![m].pc = final, ![m].thread = t,
                               ![Head(queue)].pc = "find"]
    ELSE /\ cur' = 0
         /\ queue' = queue
         /\ dms' = [dms EXCEPT ![m].pc = final, ![m].thread = t]

(* ------------------------- private messages ---------------------------- *)
\* bot.on('messageCreate') for a private channel: the synchronous guards.
\* The handler returns for a bot author or a non-default message type, and
\* otherwise awaits blocked.isBlocked.
DMArrive ==
  /\ Len(dms) < MaxDM
  /\ Delivered < MaxEvents
  /\ \E u \in Authors, ty \in MsgTypes :
       dms' = Append(dms, [user |-> u, type |-> ty, thread |-> NoThread,
                           pc |-> IF IsBot(u) \/ ty # 0 THEN "ignored"
                                  ELSE "isBlocked"])
  /\ UNCHANGED <<queue, cur, storeVars, closeVars, config, mentionVars, handlerVars>>

\* DMGate with the task run at once instead of being handed to the queue.
DMGateUnqueued(m) ==
  /\ dms[m].pc = "isBlocked"
  /\ IF IsBlocked(dms[m].user)
       THEN dms' = [dms EXCEPT ![m].pc = "blocked"]
       ELSE dms' = [dms EXCEPT ![m].pc = "find"]
  /\ UNCHANGED <<queue, cur, storeVars, closeVars, config, mentionVars, handlerVars>>

\* DMGate without the return for a blocked author.
DMGateNoBlockCheck(m) ==
  /\ dms[m].pc = "isBlocked"
  /\ QueueAdd(m)
  /\ UNCHANGED <<storeVars, closeVars, config, mentionVars, handlerVars>>

\* The await of blocked.isBlocked resolves: return when blocked, else
\* messageQueue.add(task).
DMGate(m) ==
  /\ dms[m].pc = "isBlocked"
  /\ IF IsBlocked(dms[m].user)
       THEN /\ dms' = [dms EXCEPT ![m].pc = "blocked"]
            /\ UNCHANGED <<queue, cur>>
       ELSE QueueAdd(m)
  /\ UNCHANGED <<storeVars, closeVars, config, mentionVars, handlerVars>>

\* The lookup half of threads.findOrCreateThreadForUser(msg.author): an
\* existing OPEN thread of the user is returned, otherwise one is created.
TaskFind(m) ==
  /\ dms[m].pc = "find"
  /\ LET t == FindOpenThreadByUserId(dms[m].user) IN
       dms' = [dms EXCEPT ![m].pc = IF t = NoThread THEN "create" ELSE "receive",
                          ![m].thread = t]
  /\ UNCHANGED <<queue, cur, storeVars, closeVars, config, mentionVars, handlerVars>>

\* The new thread row of findOrCreateThreadForUser.
NewThread(u, c) ==
  [user_id |-> u, channel_id |-> c, status |-> "OPEN", closed_at |-> 0]

\* The creating half of findOrCreateThreadForUser: create the channel, then
\* persist the OPEN thread. Either call may fail, which rejects the task; a
\* failure between the two leaves an orphan channel.
TaskCreate(m) ==
  /\ dms[m].pc = "create"
  /\ \E outcome \in {"ok", "channelFails", "insertFails"} :
       CASE outcome = "ok" ->
              /\ channelsMade' = channelsMade + 1
              /\ threads' = Append(threads, NewThread(dms[m].user, channelsMade + 1))
              /\ logExports' = Append(logExports, 0)
              /\ channelRemovals' = Append(channelRemovals, 0)
              /\ dms' = [dms EXCEPT ![m].pc = "receive", ![m].thread = Len(threads) + 1]
              /\ UNCHANGED <<queue, cur>>
         [] outcome = "channelFails" ->
              /\ QueueSettle(m, "failed", NoThread)
              /\ UNCHANGED <<channelsMade, threads, logExports, channelRemovals>>
         [] outcome = "insertFails" ->
              /\ channelsMade' = channelsMade + 1
              /\ QueueSettle(m, "failed", NoThread)
              /\ UNCHANGED <<threads, logExports, channelRemovals>>
  /\ UNCHANGED <<messages, blocked, closeVars, config, mentionVars, handlerVars>>

\* msg.content of the m-th private message: "a", "b", ...
DMContent(m) == <<<<"a", "b", "c", "d", "e">>[m]>>

\* The ChatMessage row thread.receiveUserReply(msg) stores.
UserReplyMessage(m) ==
  [thread_id |-> dms[m].thread, direction |-> "FROM_USER", src |-> <<"dm", m>>,
   author |-> dms[m].user, content |-> DMContent(m), deleted |-> FALSE,
   anonymous |-> FALSE]

\* await thread.receiveUserReply(msg): the message is relayed into the thread
\* channel and stored as FROM_USER, or the call fails and the task rejects.
TaskReceive(m) ==
  /\ dms[m].pc = "receive"
  /\ \E ok \in BOOLEAN :
       IF ok
         THEN /\ messages' = Append(messages, UserReplyMessage(m))
              /\ QueueSettle(m, "done", dms[m].thread)
         ELSE /\ messages' = messages
              /\ QueueSettle(m, "failed", dms[m].thread)
  /\ UNCHANGED <<threads, channelsMade, blocked, logExports, channelRemovals,
                 closeVars, config, mentionVars, handlerVars>>

(* ------------------------------- close --------------------------------- *)
\* Channels a command can be issued in: 0 is a channel no thread ever had.
Channels == 0..channelsMade

\* The command dispatcher resolves the OPEN thread bound to the invoking
\* channel (null if none) and then calls the handler with it.
CloseDispatch(c) ==
  /\ closeIssued < MaxClose
  /\ Delivered < MaxEvents
  /\ closeIssued' = closeIssued + 1
  /\ LET t == FindOpenThreadByChannelId(c) IN
       closePend' = [closePend EXCEPT ![t] = @ + 1]
  /\ UNCHANGED <<dmVars, storeVars, closeCalls, config, mentionVars, handlerVars>>

\* ThreadClose without the check of the status.
ThreadCloseAgain(t) ==
  /\ threads' = [threads EXCEPT ![t].status = "CLOSED",
                                ![t].closed_at = closeCalls + 1]
  /\ logExports' = [logExports EXCEPT ![t] = @ + 1]
  /\ channelRemovals' = [channelRemovals EXCEPT ![t] = @ + 1]

\* thread.close(): OPEN -> CLOSED, export the log, remove the channel, set
\* closed_at; a no-op on a thread that is already CLOSED.
ThreadClose(t) ==
  IF threads[t].status = "OPEN"
    THEN /\ threads' = [threads EXCEPT ![t].status = "CLOSED",
                                       ![t].closed_at = closeCalls + 1]
         /\ logExports' = [logExports EXCEPT ![t] = @ + 1]
         /\ channelRemovals' = [channelRemovals EXCEPT ![t] = @ + 1]
    ELSE UNCHANGED <<threads, logExports, channelRemovals>>

\* The close command's handler: if (! thread) return; thread.close();
CloseCommand(t) ==
  /\ closePend[t] > 0
  /\ closePend' = [closePend EXCEPT ![t] = @ - 1]
  /\ IF t = NoThread
       THEN UNCHANGED <<threads, logExports, channelRemovals, closeCalls>>
       ELSE /\ closeCalls' = closeCalls + 1
            /\ ThreadClose(t)
  /\ UNCHANGED <<dmVars, channelsMade, messages, blocked, closeIssued, config, mentionVars, handlerVars>>

(* --------------------------- block / unblock --------------------------- *)
\* blocked.block(userId): insert into the set of blocked users.
BlockedInsert(S, u) == S \cup {u}

\* blocked.unblock(userId): remove from the set of blocked users.
BlockedRemove(S, u) == S \ {u}

\* BlockCommand also closing the OPEN thread of the user it blocks.
BlockCommandClosing(u) ==
  /\ blocked' = BlockedInsert(blocked, u)
  /\ threads' = [t \in ThreadIds |->
                   IF threads[t].user_id = u
                     THEN [threads[t] EXCEPT !.status = "CLOSED"]
                     ELSE threads[t]]
  /\ UNCHANGED <<dmVars, channelsMade, messages, logExports,
                 channelRemovals, closeVars, config, mentionVars, handlerVars>>

\* The block command: the user id comes from the argument or from the thread
\* of the invoking channel; await blocked.block(userId)
BlockCommand(u) ==
  /\ blocked' = BlockedInsert(blocked, u)
  /\ UNCHANGED <<dmVars, threads, channelsMade, messages, logExports,
                 channelRemovals, closeVars, config, mentionVars, handlerVars>>

\* The unblock command: await blocked.unblock(userId)
UnblockCommand(u) ==
  /\ blocked' = BlockedRemove(blocked, u)
  /\ UNCHANGED <<dmVars, threads, channelsMade, messages, logExports,
                 channelRemovals, closeVars, config, mentionVars, handlerVars>>

(* ----------------------------- lookups -------------------------------- *)
ThreadsOfChannel(c) == {t \in ThreadIds : threads[t].channel_id = c}

\* threads.findByChannelId(channelId): the thread of the channel, whatever
\* its status.
FindByChannelId(c) ==
  IF ThreadsOfChannel(c) = {} THEN NoThread
  ELSE CHOOSE t \in ThreadsOfChannel(c) : \A x \in ThreadsOfChannel(c) : t <= x

(* --------------------------- message edits ----------------------------- *)
\* The edit events the gateway can deliver: an edit of a private message by
\* any author, or of a message posted earlier on the inbox server.
EditEvents ==
  {[side |-> "dm", author |-> a, channel |-> 0, ext |-> <<"none", 0>>,
    old |-> o, new |-> n] : a \in Authors, o \in OldContents, n \in NewContents}
  \cup
  UNION {
    {[side |-> "inbox", author |-> staffMsgs[k].author, channel |-> staffMsgs[k].channel,
      ext |-> <<"staff", k>>, old |-> o, new |-> n] :
        o \in {Null, staffMsgs[k].content}, n \in StaffContents} :
    k \in 1..Len(staffMsgs)}

\* bot.on('messageUpdate'): if (msg.author.bot) return; then the await of
\* blocked.isBlocked.
EditArrive ==
  /\ Len(edits) < MaxEdit
  /\ Delivered < MaxEvents
  /\ \E e \in EditEvents :
       edits' = Append(edits, [ev |-> e, thread |-> NoThread,
                               pc |-> IF IsBot(e.author) THEN "ignored"
                                      ELSE "isBlocked"])
  /\ UNCHANGED <<dmVars, storeVars, closeVars, config, mentionVars, staffMsgs, replies,
                 deletes, crashed>>

\* oldContent after `if (oldContent == null) oldContent = placeholder`
OldContentOf(e) == IF e.old = Null THEN RestartPlaceholder ELSE e.old

\* SameContent comparing the contents as they are.
SameContentUntrimmed(e) == e.new = OldContentOf(e)

\* newContent.trim() === oldContent.trim()
SameContent(e) == Trim(e.new) = Trim(OldContentOf(e))

\* The pc after the blocklist check and the comparison of the contents: the
\* handler returns for a blocked author and for an edit that changes nothing,
\* and otherwise awaits the lookup of its branch.
EditBranch(e) ==
  IF IsBlocked(e.author) THEN "blocked"
  ELSE IF SameContent(e) THEN "same"
  ELSE IF e.side = "dm" THEN "findUser"
  ELSE IF IsStaff(e.author) THEN "findChannel"
  ELSE "ignored"

EditGate(i) ==
  /\ edits[i].pc = "isBlocked"
  /\ edits' = [edits EXCEPT ![i].pc = EditBranch(edits[i].ev)]
  /\ UNCHANGED <<dmVars, storeVars, closeVars, config, mentionVars, staffMsgs, replies,
                 deletes, crashed>>

\* The text of the edit notice: `B:` old, `A:` new
EditNotice(e) == <<"B">> \o OldContentOf(e) \o <<"A">> \o e.new

\* The ChatMessage row thread.postSystemMessage(text) stores.
SystemMessage(t, i, text) ==
  [thread_id |-> t, direction |-> "SYSTEM", src |-> <<"edit", i>>,
   author |-> "bot", content |-> text, deleted |-> FALSE, anonymous |-> FALSE]

\* EditDM posting into the author's first thread, whatever its status.
EditDMAnyThread(i) ==
  /\ edits[i].pc = "findUser"
  /\ LET t == FindAnyThreadByUserId(edits[i].ev.author) IN
       IF t = NoThread
         THEN /\ edits' = [edits EXCEPT ![i].pc = "crashed"]
              /\ crashed' = crashed \cup {"messageUpdate"}
              /\ messages' = messages
         ELSE /\ edits' = [edits EXCEPT ![i].pc = "posted", ![i].thread = t]
              /\ messages' = Append(messages, SystemMessage(t, i, EditNotice(edits[i].ev)))
              /\ crashed' = crashed
  /\ UNCHANGED <<dmVars, threads, channelsMade, blocked, logExports,
                 channelRemovals, closeVars, config, mentionVars, staffMsgs, replies, deletes>>

\* 1) Edit in DMs: the await of threads.findOpenThreadByUserId resolves and
\* thread.postSystemMessage is called on the result, which is null when the
\* author has no OPEN thread: the call then raises a TypeError.
EditDM(i) ==
  /\ edits[i].pc = "findUser"
  /\ LET t == FindOpenThreadByUserId(edits[i].ev.author) IN
       IF t = NoThread
         THEN /\ edits' = [edits EXCEPT ![i].pc = "crashed"]
              /\ crashed' = crashed \cup {"messageUpdate"}
              /\ messages' = messages
         ELSE /\ edits' = [edits EXCEPT ![i].pc = "posted", ![i].thread = t]
              /\ messages' = Append(messages, SystemMessage(t, i, EditNotice(edits[i].ev)))
              /\ crashed' = crashed
  /\ UNCHANGED <<dmVars, threads, channelsMade, blocked, logExports,
                 channelRemovals, closeVars, config, mentionVars, staffMsgs, replies, deletes>>

\* thread.updateChatMessage(msg): the content of the row of that message.
UpdateChatMessage(t, ext, text) ==
  [j \in 1..Len(messages) |->
     IF messages[j].thread_id = t /\ messages[j].src = ext
       THEN [messages[j] EXCEPT !.content = text]
       ELSE messages[j]]

\* 2) Edit in the thread: the await of threads.findOpenThreadByChannelId
\* resolves; if (! thread) return; thread.updateChatMessage(msg).
EditStaff(i) ==
  /\ edits[i].pc = "findChannel"
  /\ LET t == FindOpenThreadByChannelId(edits[i].ev.channel) IN
       IF t = NoThread
         THEN /\ edits' = [edits EXCEPT ![i].pc = "nothread"]
              /\ messages' = messages
         ELSE /\ edits' = [edits EXCEPT ![i].pc = "updated", ![i].thread = t]
              /\ messages' = UpdateChatMessage(t, edits[i].ev.ext, edits[i].ev.new)
  /\ UNCHANGED <<dmVars, threads, channelsMade, blocked, logExports,
                 channelRemovals, closeVars, config, mentionVars, staffMsgs, replies, deletes,
                 crashed>>

(* ------------------------ messages of the staff ------------------------ *)
\* bot.on('messageCreate') for a message on the inbox server: return unless
\* the author is staff, not a bot, and the text is no command or snippet;
\* then the await of threads.findByChannelId.
StaffGuard(a, text) ==
  IF ~IsStaff(a) THEN "ignored"
  ELSE IF IsBot(a) THEN "ignored"
  ELSE IF StartsWith(text, Prefix) \/ StartsWith(text, SnippetPrefix) THEN "ignored"
  ELSE "find"

\* The channels of the inbox server that exist: 0 is a channel no thread ever
\* had; the channel of a thread exists until close removes it.
LiveChannels ==
  {c \in 0..channelsMade : \A t \in ThreadsOfChannel(c) : channelRemovals[t] = 0}

StaffArrive ==
  /\ Len(staffMsgs) < MaxStaffMsg
  /\ Delivered < MaxEvents
  /\ \E a \in InboxAuthors, c \in LiveChannels, text \in StaffContents :
       staffMsgs' = Append(staffMsgs, [author |-> a, channel |-> c, content |-> text,
                                       thread |-> NoThread, pc |-> StaffGuard(a, text)])
  /\ UNCHANGED <<dmVars, storeVars, closeVars, config, mentionVars, edits, replies, deletes,
                 crashed>>

\* The ChatMessage row thread.saveChatMessage(msg) stores.
StaffChatMessage(t, k) ==
  [thread_id |-> t, direction |-> "STAFF_CHAT", src |-> <<"staff", k>>,
   author |-> staffMsgs[k].author, content |-> staffMsgs[k].content,
   deleted |-> FALSE, anonymous |-> FALSE]

\* The ChatMessage row thread.replyToUser(member, text, attachments, anon) stores.
ToUserMessage(t, ext, a, text, anon) ==
  [thread_id |-> t, direction |-> "TO_USER", src |-> ext, author |-> a,
   content |-> text, deleted |-> FALSE, anonymous |-> anon]

\* The lookup resolves: if (! thread) return; with alwaysReply the message is
\* sent on as a reply, otherwise thread.saveChatMessage(msg).
StaffFind(k) ==
  /\ staffMsgs[k].pc = "find"
  /\ LET t == FindByChannelId(staffMsgs[k].channel) IN
       IF t = NoThread
         THEN /\ staffMsgs' = [staffMsgs EXCEPT ![k].pc = "nothread"]
              /\ messages' = messages
         ELSE IF config.alwaysReply
           THEN /\ staffMsgs' = [staffMsgs EXCEPT ![k].pc = "reply", ![k].thread = t]
                /\ messages' = messages
           ELSE /\ staffMsgs' = [staffMsgs EXCEPT ![k].pc = "saved", ![k].thread = t]
                /\ messages' = Append(messages, StaffChatMessage(t, k))
  /\ UNCHANGED <<dmVars, threads, channelsMade, blocked, logExports,
                 channelRemovals, closeVars, config, mentionVars, edits, replies, deletes,
                 crashed>>

\* AlwaysReplyAnon taking every value but false for true.
AlwaysReplyAnonUnlessFalse == config.alwaysReplyAnon # "false"

\* config.alwaysReplyAnon || false
AlwaysReplyAnon == config.alwaysReplyAnon = "true"

\* await thread.replyToUser(msg.member, msg.content.trim(), msg.attachments,
\* config.alwaysReplyAnon || false); msg.delete(). A failed relay rejects the
\* handler before the delete.
StaffReply(k) ==
  /\ staffMsgs[k].pc = "reply"
  /\ \E ok \in BOOLEAN :
       IF ok
         THEN /\ messages' = Append(messages,
                   ToUserMessage(staffMsgs[k].thread, <<"sent", k>>, staffMsgs[k].author,
                                 Trim(staffMsgs[k].content), AlwaysReplyAnon))
              /\ staffMsgs' = [staffMsgs EXCEPT ![k].pc = "deleted"]
              /\ crashed' = crashed
         ELSE /\ messages' = messages
              /\ staffMsgs' = [staffMsgs EXCEPT ![k].pc = "failed"]
              /\ crashed' = crashed \cup {"messageCreate"}
  /\ UNCHANGED <<dmVars, threads, channelsMade, blocked, logExports,
                 channelRemovals, closeVars, config, mentionVars, edits, replies, deletes>>

(* ------------------------- reply / anonreply --------------------------- *)
\* The dispatcher resolves the OPEN thread of the invoking channel and calls
\* the handler: if (! thread) return; then the await of thread.replyToUser.
ReplyDispatch(c, anon) ==
  /\ Len(replies) < MaxReply
  /\ Delivered < MaxEvents
  /\ LET t == FindOpenThreadByChannelId(c) IN
       replies' = Append(replies, [channel |-> c, anon |-> anon, thread |-> t,
                                   pc |-> IF t = NoThread THEN "nothread" ELSE "reply"])
  /\ UNCHANGED <<dmVars, storeVars, closeVars, config, mentionVars, edits, staffMsgs, deletes,
                 crashed>>

\* ReplyCommand deleting the command message without waiting for the relay.
ReplyCommandDeleteFirst(r) ==
  /\ replies[r].pc = "reply"
  /\ \E ok \in BOOLEAN :
       IF ok
         THEN /\ messages' = Append(messages,
                   ToUserMessage(replies[r].thread, <<"reply", r>>, "mod", <<"t">>,
                                 replies[r].anon))
              /\ replies' = [replies EXCEPT ![r].pc = "deleted"]
              /\ crashed' = crashed
         ELSE /\ messages' = messages
              /\ replies' = [replies EXCEPT ![r].pc = "deleted"]
              /\ crashed' = crashed \cup {"reply"}
  /\ UNCHANGED <<dmVars, threads, channelsMade, blocked, logExports,
                 channelRemovals, closeVars, config, mentionVars, edits, staffMsgs, deletes>>

\* await thread.replyToUser(msg.member, text, msg.attachments, anon);
\* msg.delete()
ReplyCommand(r) ==
  /\ replies[r].pc = "reply"
  /\ \E ok \in BOOLEAN :
       IF ok
         THEN /\ messages' = Append(messages,
                   ToUserMessage(replies[r].thread, <<"reply", r>>, "mod", <<"t">>,
                                 replies[r].anon))
              /\ replies' = [replies EXCEPT ![r].pc = "deleted"]
              /\ crashed' = crashed
         ELSE /\ messages' = messages
              /\ replies' = [replies EXCEPT ![r].pc = "failed"]
              /\ crashed' = crashed \cup {"reply"}
  /\ UNCHANGED <<dmVars, threads, channelsMade, blocked, logExports,
                 channelRemovals, closeVars, config, mentionVars, edits, staffMsgs, deletes>>

(* --------------------------- message deletes --------------------------- *)
\* The delete events the gateway can deliver: of a message posted earlier on
\* the inbox server, or of a private message.
DeleteEvents ==
  {[side |-> "inbox", msg |-> k, author |-> staffMsgs[k].author] : k \in 1..Len(staffMsgs)}
  \cup
  {[side |-> "dm", msg |-> m, author |-> dms[m].user] : m \in 1..Len(dms)}

\* if (msg.author.bot) return; if (! messageIsOnInboxServer(msg)) return;
\* if (! isStaff(msg.member)) return;
DeleteGuard(e) ==
  IF IsBot(e.author) THEN "ignored"
  ELSE IF e.side # "inbox" THEN "ignored"
  ELSE IF ~IsStaff(e.author) THEN "ignored"
  ELSE "find"

\* bot.on('messageDelete'): the guards, then the await of
\* threads.findOpenThreadByChannelId.
DeleteArrive ==
  /\ Len(deletes) < MaxDelete
  /\ Delivered < MaxEvents
  /\ \E e \in DeleteEvents :
       deletes' = Append(deletes, [side |-> e.side, msg |-> e.msg, pc |-> DeleteGuard(e)])
  /\ UNCHANGED <<dmVars, storeVars, closeVars, config, mentionVars, edits, staffMsgs, replies,
                 crashed>>

\* thread.deleteChatMessage(msg.id): the row is kept and marked deleted.
DeleteChatMessage(t, ext) ==
  [j \in 1..Len(messages) |->
     IF messages[j].thread_id = t /\ messages[j].src = ext
       THEN [messages[j] EXCEPT !.deleted = TRUE]
       ELSE messages[j]]

\* DeleteFind removing the row instead of marking it.
DeleteFindHard(d) ==
  /\ deletes[d].pc = "find"
  /\ LET t == FindOpenThreadByChannelId(staffMsgs[deletes[d].msg].channel)
         Kept(row) == ~(row.thread_id = t /\ row.src = <<"staff", deletes[d].msg>>) IN
       IF t = NoThread
         THEN /\ deletes' = [deletes EXCEPT ![d].pc = "nothread"]
              /\ messages' = messages
         ELSE /\ deletes' = [deletes EXCEPT ![d].pc = "done"]
              /\ messages' = SelectSeq(messages, Kept)
  /\ UNCHANGED <<dmVars, threads, channelsMade, blocked, logExports,
                 channelRemovals, closeVars, config, mentionVars, edits, staffMsgs, replies,
                 crashed>>

\* The lookup resolves: if (! thread) return; thread.deleteChatMessage(msg.id)
DeleteFind(d) ==
  /\ deletes[d].pc = "find"
  /\ LET t == FindOpenThreadByChannelId(staffMsgs[deletes[d].msg].channel) IN
       IF t = NoThread
         THEN /\ deletes' = [deletes EXCEPT ![d].pc = "nothread"]
              /\ messages' = messages
         ELSE /\ deletes' = [deletes EXCEPT ![d].pc = "done"]
              /\ messages' = DeleteChatMessage(t, <<"staff", deletes[d].msg>>)
  /\ UNCHANGED <<dmVars, threads, channelsMade, blocked, logExports,
                 channelRemovals, closeVars, config, mentionVars, edits, staffMsgs, replies,
                 crashed>>

(* ------------------------------ mentions ------------------------------- *)
\* The authors of messages outside the private channels.
MentionAuthors == Authors \cup Staff

\* The messageCreate events outside the private channels: on the main server
\* or not, mentioning the bot or not.
MentionEvents ==
  {[author |-> a, onMain |-> om, mentionsBot |-> mb] :
     a \in MentionAuthors, om \in BOOLEAN, mb \in BOOLEAN}

\* if (! messageIsOnMainServer(msg)) return; if (! msg.mentions.some(...)) return;
\* if (getInboxGuild().members.get(msg.author.id)) return;
MentionGuard(e) ==
  IF ~e.onMain THEN "ignored"
  ELSE IF ~e.mentionsBot THEN "ignored"
  ELSE IF e.author \in InboxAuthors THEN "ignored"
  ELSE "isBlocked"

\* bot.on('messageCreate') for a mention: the guards, then the await of
\* blocked.isBlocked.
MentionArrive ==
  /\ Len(mentions) < MaxMention
  /\ Delivered < MaxEvents
  /\ \E e \in MentionEvents :
       mentions' = Append(mentions, [ev |-> e, pc |-> MentionGuard(e)])
  /\ UNCHANGED <<dmVars, storeVars, closeVars, config, handlerVars, alerts>>

\* MentionGate without the return for a blocked author.
MentionGateNoBlockCheck(i) ==
  /\ mentions[i].pc = "isBlocked"
  /\ mentions' = [mentions EXCEPT ![i].pc = "alerted"]
  /\ alerts' = Append(alerts, i)
  /\ UNCHANGED <<dmVars, storeVars, closeVars, config, handlerVars>>

\* The await of blocked.isBlocked resolves: return when blocked, else
\* bot.createMessage(logChannel, alert).
MentionGate(i) ==
  /\ mentions[i].pc = "isBlocked"
  /\ IF IsBlocked(mentions[i].ev.author)
       THEN /\ mentions' = [mentions EXCEPT ![i].pc = "blocked"]
            /\ alerts' = alerts
       ELSE /\ mentions' = [mentions EXCEPT ![i].pc = "alerted"]
            /\ alerts' = Append(alerts, i)
  /\ UNCHANGED <<dmVars, storeVars, closeVars, config, handlerVars>>

(* --------------------------- specification ----------------------------- *)
InitState ==
  /\ dms = <<>>
  /\ queue = <<>>
  /\ cur = 0
  /\ threads = <<>>
  /\ channelsMade = 0
  /\ messages = <<>>
  /\ blocked = {}
  /\ closePend = [t \in 0..MaxDM |-> 0]
  /\ closeIssued = 0
  /\ closeCalls = 0
  /\ logExports = <<>>
  /\ channelRemovals = <<>>
  /\ edits = <<>>
  /\ staffMsgs = <<>>
  /\ replies = <<>>
  /\ deletes = <<>>
  /\ crashed = {}
  /\ mentions = <<>>
  /\ alerts = <<>>

\* The state after construction, for each configuration the bot can load.
Init == InitState /\ config \in Configs

\* The state after construction with the default configuration.
InitDefault == InitState /\ config = DefaultConfig

\* Private messages, the queue, close, block and unblock.
NextDM ==
  \/ DMArrive
  \/ \E m \in 1..Len(dms) : DMGate(m)
  \/ \E m \in 1..Len(dms) : TaskFind(m)
  \/ \E m \in 1..Len(dms) : TaskCreate(m)
  \/ \E m \in 1..Len(dms) : TaskReceive(m)
  \/ \E c \in Channels : CloseDispatch(c)
  \/ \E t \in 0..Len(threads) : CloseCommand(t)
  \/ \E u \in Humans : BlockCommand(u)
  \/ \E u \in Humans : UnblockCommand(u)

\* Message edits, up to the branch for an edit in DMs.
NextEdit ==
  \/ EditArrive
  \/ \E i \in 1..Len(edits) : EditGate(i)
  \/ \E i \in 1..Len(edits) : EditDM(i)

\* Messages of the staff on the inbox server.
NextStaffMsg ==
  \/ StaffArrive
  \/ \E k \in 1..Len(staffMsgs) : StaffFind(k)
  \/ \E k \in 1..Len(staffMsgs) : StaffReply(k)

\* Messages of the staff on the inbox server, and the edits of them.
NextStaff ==
  \/ NextStaffMsg
  \/ \E i \in 1..Len(edits) : EditStaff(i)

\* The reply and anonreply commands.
NextReply ==
  \/ \E c \in Channels, anon \in BOOLEAN : ReplyDispatch(c, anon)
  \/ \E r \in 1..Len(replies) : ReplyCommand(r)

\* Message deletes.
NextDelete ==
  \/ DeleteArrive
  \/ \E d \in 1..Len(deletes) : DeleteFind(d)

\* The reply commands and message deletes.
NextReplyDelete == NextReply \/ NextDelete

\* Mentions of the bot on the main server.
NextMention ==
  \/ MentionArrive
  \/ \E i \in 1..Len(mentions) : MentionGate(i)

Next == NextDM \/ NextEdit \/ NextStaff \/ NextReplyDelete \/ NextMention

Spec == Init /\ [][Next]_vars

\* The private-message path with the messages of the staff, for each
\* configuration.
SpecStaff == Init /\ [][NextDM \/ NextStaffMsg]_vars

\* The private-message path with the reply commands.
SpecReply == InitDefault /\ [][NextDM \/ NextReply]_vars

\* The private-message path with the messages of the staff and the deletes.
SpecDelete == Init /\ [][NextDM \/ NextStaffMsg \/ NextDelete]_vars

\* The private-message path with the mentions.
SpecMention == InitDefault /\ [][NextDM \/ NextMention]_vars

\* A task's awaited calls: they are taken to complete.
TaskStep ==
  \E m \in 1..Len(dms) : TaskFind(m) \/ TaskCreate(m) \/ TaskReceive(m)

\* The private-message path when every call a task awaits completes.
SpecLive == InitDefault /\ [][NextDM]_vars /\ WF_vars(TaskStep)

\* The private-message path on its own.
SpecDM == InitDefault /\ [][NextDM]_vars

\* The private-message path with the edits of private messages.
SpecEdit == InitDefault /\ [][NextDM \/ NextEdit]_vars

(* ------------------------------ claims --------------------------------- *)
DMIds == 1..Len(dms)
ActivePcs == {"find", "create", "receive"}
ActiveTasks == {m \in DMIds : dms[m].pc \in ActivePcs}
FromUserOf(m) ==
  {j \in 1..Len(messages) :
     messages[j].direction = "FROM_USER" /\ messages[j].src = <<"dm", m>>}
RECURSIVE SeqToSet(_)
SeqToSet(q) == IF q = <<>> THEN {} ELSE {Head(q)} \cup SeqToSet(Tail(q))

\* C1: while none of a user's threads has been closed, the private messages
\* of that user, however their handlers interleave, have created at most one
\* thread, every task that resolved a thread resolved that one, and it exists
\* and is OPEN as soon as one task has resolved.
C1_OneThreadForConcurrentDMs ==
  \A u \in Humans :
    (\A t \in ThreadsOfUser(u) : threads[t].status = "OPEN") =>
      /\ Cardinality(ThreadsOfUser(u)) <= 1
      /\ \A m \in DMIds :
           (dms[m].user = u /\ dms[m].pc \in {"receive", "done"}) =>
             /\ ThreadsOfUser(u) = {dms[m].thread}
             /\ \A k \in DMIds :
                  (dms[k].user = u /\ dms[k].thread # NoThread) =>
                    dms[k].thread = dms[m].thread

\* Two messages of one user, both queued tasks done, one thread.
C1_Witness ==
  /\ Len(dms) >= 2
  /\ dms[1].user = dms[2].user
  /\ dms[1].pc = "done" /\ dms[2].pc = "done"
  /\ dms[1].thread = dms[2].thread
  /\ Len(threads) = 1 /\ threads[1].status = "OPEN"

\* C2: in every reachable state there is at most one OPEN thread per user,
\* and no two OPEN threads share a channel.
C2_OpenThreadsUnique ==
  /\ \A u \in Humans : Cardinality(OpenThreadsOfUser(u)) <= 1
  /\ \A t1, t2 \in ThreadIds :
       (t1 # t2 /\ threads[t1].status = "OPEN" /\ threads[t2].status = "OPEN") =>
         threads[t1].channel_id # threads[t2].channel_id

\* A user with a CLOSED thread and an OPEN one.
C2_Witness ==
  \E t1, t2 \in ThreadIds :
    /\ threads[t1].user_id = threads[t2].user_id
    /\ threads[t1].status = "CLOSED"
    /\ threads[t2].status = "OPEN"

C3_OneAtATime ==
  /\ Cardinality(ActiveTasks) <= 1
  /\ ActiveTasks = {cur} \ {0}
  /\ \A m \in DMIds : dms[m].pc = "queued" <=> m \in SeqToSet(queue)

C3_StartInOrder ==
  \A m \in DMIds :
    (dms[m].pc # "find" /\ dms'[m].pc = "find") =>
      /\ \A k \in DMIds : k # m => dms'[k].pc \notin ActivePcs
      /\ \/ dms[m].pc = "isBlocked" /\ cur = 0 /\ queue = <<>> /\ queue' = <<>>
         \/ dms[m].pc = "queued" /\ Head(queue) = m /\ queue' = Tail(queue)

C3_AppendAtEnd ==
  \/ queue' = queue
  \/ queue # <<>> /\ queue' = Tail(queue)
  \/ \E m \in DMIds : queue' = Append(queue, m)

C5_ArrivalOrder ==
  \A i, j \in 1..Len(messages) :
    (/\ i < j
     /\ messages[i].direction = "FROM_USER"
     /\ messages[j].direction = "FROM_USER"
     /\ messages[i].author = messages[j].author
     /\ messages[i].thread_id = messages[j].thread_id) =>
      messages[i].src[2] < messages[j].src[2]

C6_Once ==
  \A t \in ThreadIds :
    /\ logExports[t] = (IF threads[t].status = "CLOSED" THEN 1 ELSE 0)
    /\ channelRemovals[t] = logExports[t]

C6_ClosedUntouched ==
  \A t \in ThreadIds :
    threads[t].status = "CLOSED" =>
      /\ threads'[t] = threads[t]
      /\ logExports'[t] = logExports[t]
      /\ channelRemovals'[t] = channelRemovals[t]

C7_Monotone ==
  /\ Len(threads') >= Len(threads)
  /\ \A t \in ThreadIds :
       /\ threads[t].status = "CLOSED" => threads'[t].status = "CLOSED"
       /\ threads'[t].user_id = threads[t].user_id
       /\ threads'[t].channel_id = threads[t].channel_id

C7_NewThreadAfterClose ==
  \A m \in DMIds :
    /\ (/\ dms[m].pc = "find" /\ dms'[m].pc # "find"
        /\ \A t \in ThreadsOfUser(dms[m].user) : threads[t].status = "CLOSED") =>
         dms'[m].pc = "create"
    /\ (dms[m].pc = "create" /\ dms'[m].pc = "receive") =>
         /\ dms'[m].thread = Len(threads) + 1
         /\ threads' = Append(threads, NewThread(dms[m].user, channelsMade + 1))

\* C7: a thread's status only goes from OPEN to CLOSED and a CLOSED thread
\* stays CLOSED; a queued task that looks up the thread of a user whose
\* threads are all CLOSED goes on to create a thread, and the thread it
\* creates is a new OPEN row with a new id, all other rows left as they are.
C7_ClosedIsTerminal == [][C7_Monotone /\ C7_NewThreadAfterClose]_vars

\* A message processed after its author's thread was closed got a new thread.
C7_Witness ==
  /\ Len(threads) = 2
  /\ threads[1].user_id = threads[2].user_id
  /\ threads[1].status = "CLOSED"
  /\ threads[2].status = "OPEN"
  /\ \E m \in DMIds : dms[m].thread = 2 /\ dms[m].pc = "done"

C8_NothingForDropped ==
  \A m \in DMIds :
    /\ (IsBot(dms[m].user) \/ dms[m].type # 0) => dms[m].pc = "ignored"
    /\ dms[m].pc \in {"ignored", "blocked", "isBlocked"} =>
         /\ dms[m].thread = NoThread
         /\ m \notin SeqToSet(queue)
         /\ cur # m
         /\ FromUserOf(m) = {}

C8_GateStep ==
  \A m \in DMIds :
    /\ (dms[m].pc = "isBlocked" /\ IsBlocked(dms[m].user)) =>
         dms'[m].pc \in {"isBlocked", "blocked"}
    /\ dms[m].pc \in {"ignored", "blocked"} => dms'[m] = dms[m]
    /\ (dms[m].pc = "isBlocked" /\ dms'[m].pc = "blocked") =>
         UNCHANGED <<queue, cur, threads, messages>>

\* C8: a private message from a bot or of a non-default type leaves the
\* handler at once, and one whose author is blocked when the blocklist check
\* resolves leaves it there: no such message is ever handed to the queue, no
\* thread is resolved or created for it and no FROM_USER message stored.
C8_DroppedNeverQueued == []C8_NothingForDropped /\ [][C8_GateStep]_vars

\* A message dropped at the blocklist check and one dropped before it.
C8_Witness ==
  \E m1, m2 \in DMIds :
    /\ dms[m1].pc = "blocked"
    /\ dms[m2].pc = "ignored"
EditIds == 1..Len(edits)
NoticesOf(i) == {j \in 1..Len(messages) : messages[j].src = <<"edit", i>>}
\* The old and the new content of an edit are equal once trimmed.
TrimmedEqual(e) ==
  Trim(e.new) = Trim(IF e.old = Null THEN RestartPlaceholder ELSE e.old)

C9_NeverPastTheCheck ==
  \A i \in EditIds :
    TrimmedEqual(edits[i].ev) =>
      /\ edits[i].pc \in {"ignored", "isBlocked", "blocked", "same"}
      /\ edits[i].thread = NoThread
      /\ NoticesOf(i) = {}

C9_CheckStep ==
  \A i \in EditIds :
    /\ (/\ edits[i].pc = "isBlocked" /\ edits'[i].pc # "isBlocked"
        /\ TrimmedEqual(edits[i].ev)) =>
         /\ edits'[i].pc \in {"same", "blocked"}
         /\ UNCHANGED <<dmVars, storeVars, closeVars, staffMsgs, replies, deletes,
                        crashed>>
    /\ edits[i].pc = "same" => edits'[i] = edits[i]

\* C9: an edit whose old content (the restart placeholder when it is
\* unavailable) equals its new content once both are trimmed ends at the
\* comparison: the step changes no thread, message or blocklist entry, no
\* SYSTEM message is ever posted for it and no ChatMessage updated.
C9_SameContentNoAction == []C9_NeverPastTheCheck /\ [][C9_CheckStep]_vars

\* An edit dropped by the comparison although its contents differ untrimmed.
C9_Witness ==
  \E i \in EditIds :
    /\ edits[i].pc = "same"
    /\ edits[i].ev.old # edits[i].ev.new

\* The notice of edit i has just been appended to thread t.
NoticePosted(i, t) ==
  /\ Len(messages') = Len(messages) + 1
  /\ SubSeq(messages', 1, Len(messages)) = messages
  /\ messages'[Len(messages')].direction = "SYSTEM"
  /\ messages'[Len(messages')].src = <<"edit", i>>
  /\ messages'[Len(messages')].thread_id = t

\* The handler of edit i returns or raises in this step.
EditEnds(i) ==
  /\ edits[i].pc \in {"isBlocked", "findUser"}
  /\ edits'[i].pc \notin {"isBlocked", "findUser"}

\* C10 as stated: an edit in DMs that changes the content, by an author who
\* has an OPEN thread when its handler ends, posts one SYSTEM message into
\* that thread.
C10_NoticeForEveryOpenThread ==
  [][\A i \in EditIds :
       (/\ EditEnds(i)
        /\ edits[i].ev.side = "dm"
        /\ ~TrimmedEqual(edits[i].ev)
        /\ OpenThreadsOfUser(edits[i].ev.author) # {}) =>
         \E t \in OpenThreadsOfUser(edits[i].ev.author) : NoticePosted(i, t)]_vars

C10_AtMostOne ==
  \A i \in EditIds :
    /\ Cardinality(NoticesOf(i)) <= 1
    /\ NoticesOf(i) # {} <=> edits[i].pc = "posted"
    /\ \A j \in NoticesOf(i) :
         /\ messages[j].direction = "SYSTEM"
         /\ messages[j].thread_id = edits[i].thread
         /\ threads[messages[j].thread_id].user_id = edits[i].ev.author

C10_LookupStep ==
  /\ \A i \in EditIds :
       (/\ edits[i].pc = "isBlocked" /\ edits'[i].pc # "isBlocked"
        /\ edits[i].ev.side = "dm"
        /\ ~TrimmedEqual(edits[i].ev)
        /\ edits[i].ev.author \notin blocked) =>
         edits'[i].pc = "findUser"
  /\ \A i \in EditIds :
       (edits[i].pc = "findUser" /\ edits'[i].pc # "findUser") =>
         IF OpenThreadsOfUser(edits[i].ev.author) = {}
           THEN messages' = messages
           ELSE \E t \in OpenThreadsOfUser(edits[i].ev.author) : NoticePosted(i, t)
  /\ \A j \in 1..Len(messages') :
       (messages'[j].direction = "SYSTEM" /\ j > Len(messages)) =>
         \E i \in EditIds :
           /\ edits[i].pc = "findUser"
           /\ messages'[j].thread_id \in OpenThreadsOfUser(edits[i].ev.author)

\* C10, amended: an edit in DMs whose author has no OPEN thread when the
\* lookup resolves posts no SYSTEM message; an edit in DMs that changes the
\* content, by an author who is not blocked when the blocklist check
\* resolves and has an OPEN thread when the lookup resolves, posts exactly
\* one SYSTEM message, into that thread.
C10_NoticeOnlyIntoOpenThread == []C10_AtMostOne /\ [][C10_LookupStep]_vars

\* The notice of an edit has been posted into the author's OPEN thread.
C10_Witness ==
  \E i \in EditIds :
    /\ edits[i].pc = "posted"
    /\ NoticesOf(i) # {}
    /\ threads[edits[i].thread].status = "OPEN"

StaffIds == 1..Len(staffMsgs)
ReplyIds == 1..Len(replies)
DeleteIds == 1..Len(deletes)
MentionIds == 1..Len(mentions)

\* The rows of the ChatMessage table that come from the external message ext.
RowsOf(ext) == {j \in 1..Len(messages) : messages[j].src = ext}

\* C11: a lookup miss is silently ignored by every handler and command: an
\* invocation that found no thread (edit in DMs, edit in a thread channel,
\* staff message, reply) has raised no error and has stored nothing.
C11_LookupMissIgnored ==
  /\ \A i \in EditIds :
       /\ edits[i].pc # "crashed"
       /\ edits[i].pc = "nothread" => NoticesOf(i) = {}
  /\ \A k \in StaffIds :
       staffMsgs[k].pc = "nothread" => RowsOf(<<"staff", k>>) \cup RowsOf(<<"sent", k>>) = {}
  /\ \A r \in ReplyIds :
       replies[r].pc = "nothread" => RowsOf(<<"reply", r>>) = {}
  /\ "messageUpdate" \notin crashed

\* The row appended to the ChatMessage table in this step.
Appended(row) ==
  /\ Len(messages') = Len(messages) + 1
  /\ SubSeq(messages', 1, Len(messages)) = messages
  /\ messages'[Len(messages')] = row

C12_Outcome ==
  \A k \in StaffIds :
    /\ staffMsgs[k].pc = "saved" =>
         /\ ~config.alwaysReply
         /\ Cardinality(RowsOf(<<"staff", k>>)) = 1
         /\ \A j \in RowsOf(<<"staff", k>>) :
              /\ messages[j].direction = "STAFF_CHAT"
              /\ messages[j].thread_id = staffMsgs[k].thread
         /\ RowsOf(<<"sent", k>>) = {}
    /\ staffMsgs[k].pc = "deleted" =>
         /\ config.alwaysReply
         /\ Cardinality(RowsOf(<<"sent", k>>)) = 1
         /\ \A j \in RowsOf(<<"sent", k>>) :
              /\ messages[j].direction = "TO_USER"
              /\ messages[j].thread_id = staffMsgs[k].thread
              /\ messages[j].anonymous = (config.alwaysReplyAnon = "true")
              /\ messages[j].content = Trim(staffMsgs[k].content)
         /\ RowsOf(<<"staff", k>>) = {}
    /\ staffMsgs[k].pc \notin {"saved", "deleted"} =>
         RowsOf(<<"staff", k>>) \cup RowsOf(<<"sent", k>>) = {}

C12_Step ==
  \A k \in StaffIds :
    /\ (/\ staffMsgs[k].pc = "find" /\ staffMsgs'[k].pc # "find"
        /\ ThreadsOfChannel(staffMsgs[k].channel) # {}) =>
         IF config.alwaysReply
           THEN staffMsgs'[k].pc = "reply" /\ messages' = messages
           ELSE /\ staffMsgs'[k].pc = "saved"
                /\ \E t \in ThreadsOfChannel(staffMsgs[k].channel) :
                     Appended([thread_id |-> t, direction |-> "STAFF_CHAT",
                               src |-> <<"staff", k>>, author |-> staffMsgs[k].author,
                               content |-> staffMsgs[k].content, deleted |-> FALSE,
                               anonymous |-> FALSE])
    /\ (staffMsgs[k].pc = "reply" /\ staffMsgs'[k].pc # "reply") =>
         \/ staffMsgs'[k].pc = "failed" /\ messages' = messages
         \/ /\ staffMsgs'[k].pc = "deleted"
            /\ Appended([thread_id |-> staffMsgs[k].thread, direction |-> "TO_USER",
                         src |-> <<"sent", k>>, author |-> staffMsgs[k].author,
                         content |-> Trim(staffMsgs[k].content), deleted |-> FALSE,
                         anonymous |-> (config.alwaysReplyAnon = "true")])

\* C12: a message of a non-bot staff member that is no command, in a channel
\* bound to a thread: with alwaysReply its trimmed content is relayed as one
\* TO_USER message with anonymous equal to alwaysReplyAnon (false when
\* unset), the origin message is deleted once the relay has completed and no
\* STAFF_CHAT message is stored; without alwaysReply exactly one STAFF_CHAT
\* message is stored, nothing is relayed and the origin is not deleted.
C12_AlwaysReplyOrChat == []C12_Outcome /\ [][C12_Step]_vars

\* A message relayed with alwaysReplyAnon unset: the relay is not anonymous.
C12_Witness ==
  \E k \in StaffIds :
    /\ staffMsgs[k].pc = "deleted"
    /\ config.alwaysReplyAnon = "unset"
    /\ \E j \in RowsOf(<<"sent", k>>) : ~messages[j].anonymous

\* C13: a staff message is relayed or logged only when its channel is bound
\* to an OPEN thread: every TO_USER or STAFF_CHAT row stored for a message
\* posted on the inbox server goes into a thread that is OPEN, and the
\* message is by a non-bot staff member and starts with neither prefix.
C13_OnlyIntoOpenThread ==
  [][\A j \in 1..Len(messages') :
       (j > Len(messages) /\ messages'[j].src[1] \in {"staff", "sent"}) =>
         LET k == messages'[j].src[2] IN
           /\ messages'[j].direction \in {"TO_USER", "STAFF_CHAT"}
           /\ threads[messages'[j].thread_id].status = "OPEN"
           /\ staffMsgs[k].author \in Staff
           /\ staffMsgs[k].author \notin Bots
           /\ ~StartsWith(staffMsgs[k].content, Prefix)
           /\ ~StartsWith(staffMsgs[k].content, SnippetPrefix)]_vars

C14_Outcome ==
  \A r \in ReplyIds :
    /\ replies[r].pc = "nothread" <=> replies[r].thread = NoThread
    /\ replies[r].pc = "deleted" =>
         /\ Cardinality(RowsOf(<<"reply", r>>)) = 1
         /\ \A j \in RowsOf(<<"reply", r>>) :
              /\ messages[j].direction = "TO_USER"
              /\ messages[j].thread_id = replies[r].thread
              /\ messages[j].anonymous = replies[r].anon
    /\ replies[r].pc # "deleted" => RowsOf(<<"reply", r>>) = {}

C14_Step ==
  /\ Len(replies') > Len(replies) =>
       LET r == Len(replies') IN
         /\ messages' = messages
         /\ IF OpenThreadsOfChannel(replies'[r].channel) = {}
              THEN replies'[r].pc = "nothread"
              ELSE /\ replies'[r].pc = "reply"
                   /\ replies'[r].thread \in OpenThreadsOfChannel(replies'[r].channel)
  /\ \A r \in ReplyIds :
       replies'[r].pc # replies[r].pc =>
         /\ replies[r].pc = "reply"
         /\ \/ replies'[r].pc = "failed" /\ messages' = messages
            \/ /\ replies'[r].pc = "deleted"
               /\ \E row \in {messages'[Len(messages')]} :
                    /\ Appended(row)
                    /\ row.direction = "TO_USER"
                    /\ row.src = <<"reply", r>>
                    /\ row.thread_id = replies[r].thread
                    /\ row.anonymous = replies[r].anon

\* C14: a reply (anonreply) command whose channel resolves to an OPEN thread
\* relays its text as one TO_USER message with anonymous false (true) and
\* stores one ChatMessage; the command message is deleted only once the relay
\* has completed, a failed relay leaves it, and a command with a null thread
\* does nothing.
C14_ReplyRelaysThenDeletes == []C14_Outcome /\ [][C14_Step]_vars

\* An anonreply that was relayed and whose command message was deleted.
C14_Witness ==
  \E r \in ReplyIds :
    /\ replies[r].pc = "deleted"
    /\ replies[r].anon
    /\ \E j \in RowsOf(<<"reply", r>>) : messages[j].anonymous

\* Rows are never removed and keep their thread, origin, direction and content.
C15_RowsKept ==
  /\ Len(messages') >= Len(messages)
  /\ \A j \in 1..Len(messages) :
       /\ messages'[j].thread_id = messages[j].thread_id
       /\ messages'[j].src = messages[j].src
       /\ messages'[j].direction = messages[j].direction
       /\ messages'[j].content = messages[j].content
       /\ messages[j].deleted => messages'[j].deleted

C15_Step ==
  /\ Len(deletes') > Len(deletes) =>
       LET d == Len(deletes') IN
         /\ messages' = messages
         /\ deletes'[d].pc = "find" <=>
              /\ deletes'[d].side = "inbox"
              /\ staffMsgs[deletes'[d].msg].author \in Staff \ Bots
  /\ \A d \in DeleteIds :
       deletes'[d].pc # deletes[d].pc =>
         LET k == deletes[d].msg
             open == OpenThreadsOfChannel(staffMsgs[k].channel) IN
           /\ deletes[d].pc = "find"
           /\ Len(messages') = Len(messages)
           /\ IF open = {}
                THEN deletes'[d].pc = "nothread" /\ messages' = messages
                ELSE /\ deletes'[d].pc = "done"
                     /\ \A j \in 1..Len(messages) :
                          messages'[j] =
                            IF messages[j].thread_id \in open /\ messages[j].src = <<"staff", k>>
                              THEN [messages[j] EXCEPT !.deleted = TRUE]
                              ELSE messages[j]

C15_OnlyByStaffDelete ==
  \A j \in 1..Len(messages) :
    messages[j].deleted =>
      \E d \in DeleteIds :
        /\ deletes[d].pc = "done"
        /\ deletes[d].side = "inbox"
        /\ messages[j].src = <<"staff", deletes[d].msg>>
        /\ staffMsgs[deletes[d].msg].author \in Staff \ Bots

C16_Algebra ==
  \A u \in Humans :
    /\ u \in blocked => BlockedInsert(blocked, u) = blocked
    /\ u \notin blocked => BlockedRemove(blocked, u) = blocked
    /\ BlockedInsert(BlockedInsert(blocked, u), u) = BlockedInsert(blocked, u)
    /\ BlockedRemove(BlockedRemove(blocked, u), u) = BlockedRemove(blocked, u)
    /\ u \notin BlockedRemove(BlockedInsert(blocked, u), u)
    /\ \A v \in Humans \ {u} :
         v \in BlockedRemove(BlockedInsert(blocked, u), u) <=> v \in blocked
    /\ u \notin blocked => BlockedRemove(BlockedInsert(blocked, u), u) = blocked

C16_Frame ==
  blocked' # blocked =>
    /\ threads' = threads
    /\ messages' = messages
    /\ crashed' = crashed
    /\ \E u \in Humans :
         \/ u \notin blocked /\ blocked' = blocked \cup {u}
         \/ u \in blocked /\ blocked' = blocked \ {u}

AlertsOf(i) == {j \in 1..Len(alerts) : alerts[j] = i}

C17_Outcome ==
  \A i \in MentionIds :
    /\ Cardinality(AlertsOf(i)) = IF mentions[i].pc = "alerted" THEN 1 ELSE 0
    /\ mentions[i].pc = "alerted" =>
         /\ mentions[i].ev.onMain
         /\ mentions[i].ev.mentionsBot
         /\ mentions[i].ev.author \notin InboxAuthors

C17_Step ==
  /\ Len(mentions') > Len(mentions) =>
       LET e == mentions'[Len(mentions')].ev IN
         /\ alerts' = alerts
         /\ mentions'[Len(mentions')].pc =
              IF e.onMain /\ e.mentionsBot /\ e.author \notin InboxAuthors
                THEN "isBlocked" ELSE "ignored"
  /\ \A i \in MentionIds :
       mentions'[i].pc # mentions[i].pc =>
         /\ mentions[i].pc = "isBlocked"
         /\ IF mentions[i].ev.author \in blocked
              THEN mentions'[i].pc = "blocked" /\ alerts' = alerts
              ELSE mentions'[i].pc = "alerted" /\ alerts' = Append(alerts, i)
  /\ (mentions' # mentions \/ alerts' # alerts) =>
       UNCHANGED <<threads, messages, queue, cur, dms, blocked>>

\* C17: a mention of the bot on the main server posts exactly one alert in
\* the log channel if and only if the author is not a member of the inbox
\* server and is not blocked when the blocklist check resolves; the handler
\* leaves the threads, the ChatMessages and the queue as they are.
C17_MentionAlert == []C17_Outcome /\ [][C17_Step]_vars

\* An alert has been posted while a thread exists.
C17_Witness ==
  \E i \in MentionIds :
    /\ mentions[i].pc = "alerted"
    /\ AlertsOf(i) # {}
    /\ threads # <<>>

SettledPcs == {"done", "failed"}

\* A task that was added to the queue is eventually settled.
C18_EveryTaskSettles ==
  \A m \in 1..MaxDM :
    (m \in DMIds /\ dms[m].pc \in {"queued"} \cup ActivePcs)
      ~> (m \in DMIds /\ dms[m].pc \in SettledPcs)

\* The queue is IDLE with no task waiting again and again.
C18_BackToIdle == []<>(QueueIdle /\ queue = <<>>)

\* A task is started once, from the gate or from the queue, and a task that
\* waits is started only in the step in which the running task settles.
C18_Step ==
  \A m \in DMIds :
    /\ dms[m].pc \in SettledPcs => dms'[m].pc = dms[m].pc
    /\ (dms'[m].pc = "find" /\ dms[m].pc # "find") =>
         /\ dms[m].pc \in {"isBlocked", "queued"}
         /\ dms[m].pc = "isBlocked" => cur = 0
         /\ dms[m].pc = "queued" =>
              /\ cur \in DMIds
              /\ dms[cur].pc \in ActivePcs
              /\ dms'[cur].pc \in SettledPcs
    /\ dms[m].pc = "queued" => cur \in DMIds /\ dms[cur].pc \in ActivePcs

\* C18: when every call a task awaits completes, every task added to the
\* queue is eventually executed, exactly once, and the queue is IDLE with no
\* task waiting again; and as long as the running task has not settled, no
\* task that waits is started.
C18_QueueProgress == C18_EveryTaskSettles /\ C18_BackToIdle /\ [][C18_Step]_vars

\* Two tasks have been run, one of them failed, and the queue is IDLE again.
C18_Witness ==
  /\ QueueIdle /\ queue = <<>>
  /\ \E m, n \in DMIds : dms[m].pc = "failed" /\ dms[n].pc = "done"

\* C19: a FROM_USER message is only ever appended to a thread that is OPEN
\* at the moment of the append, whatever close commands run meanwhile.
C19_AppendOnlyToOpen ==
  [][\A j \in 1..Len(messages') :
       (j > Len(messages) /\ messages'[j].direction = "FROM_USER") =>
         threads[messages'[j].thread_id].status = "OPEN"]_vars

\* C20: no thread is created and no FROM_USER message is stored for a user
\* who is on the blocklist at the moment the queued task does it.
C20_NothingWhileBlocked ==
  [][/\ Len(threads') > Len(threads) =>
          threads'[Len(threads')].user_id \notin blocked
     /\ \A j \in 1..Len(messages') :
          (j > Len(messages) /\ messages'[j].direction = "FROM_USER") =>
            messages'[j].author \notin blocked]_vars

====
